---------------------------- MODULE Spec2Model ----------------------------
(***************************************************************************)
(* Model of the remote block-execution client                              *)
(* (execution/executor-service/src/remote_executor_client1.rs) and of the  *)
(* configuration path of the executor benchmark                            *)
(* (execution/executor-benchmark/src/main.rs).                             *)
(*                                                                         *)
(* Spec         : one caller of RemoteExecutorClient1::execute_block, its  *)
(*                client, the network channel (late answers included) and  *)
(*                the worker.                                              *)
(* ConcSpec     : two callers sharing client A, one of them also using a   *)
(*                client B of its own.                                     *)
(* FairConcSpec : two callers under fair thread scheduling.                *)
(* BenchSpec    : main() of the benchmark: option values, derived          *)
(*                concurrency level, pruner and pipeline configuration.    *)
(* PipeSpec     : main() followed by the generate/execute/commit pipeline  *)
(*                of the started command.                                  *)
(* FairCallSpec : one caller under fair scheduling, reads may time out.    *)
(***************************************************************************)
EXTENDS Integers, Sequences, FiniteSets, TLC

VARIABLES
    pc,         \* caller -> position in execute_block
    clientOf,   \* caller -> client instance the current call uses
    callId,     \* caller -> id of the current call (0 when none)
    req,        \* caller -> RemoteExecutionRequest of the current call
    errs,       \* caller -> errors of the failed attempts of the current call
    slept,      \* caller -> delays slept by retry() in the current call
    wrote,      \* caller -> frames handed to NetworkClient::write in the call
    reply,      \* caller -> frame the worker answers the call's request with
    got,        \* caller -> decoded RemoteExecutionResult of the call, or None
    ret,        \* caller -> value returned by execute_block, or None
    lock,       \* client -> caller holding the Mutex<NetworkClient>, or None
    wire,       \* client -> request frames written, not yet answered
    inbox,      \* client -> response frames sent by the worker, not yet read
    liveState,  \* version of the live state view the callers borrow
    nCalls,     \* number of execute_block calls started
    nFaults,    \* number of transport faults injected so far
    nLate,      \* number of timed-out reads whose answer is still to come
    threads,    \* the callers that exist (threads sharing the clients)
    workload,   \* the calls the callers may make, with the worker's answer
    faultCap,   \* transport faults the environment injects at most
    bpc,        \* benchmark: position in main()
    opt,        \* benchmark: parsed Opt
    vmLevel,    \* benchmark: AptosVM concurrency level (None until set)
    vmShards,   \* benchmark: AptosVM number of shards (None until set)
    nativeLevel,\* benchmark: NativeExecutor concurrency level (None until set)
    cmdArgs,    \* benchmark: arguments of the command run() started, or None
    cpus,       \* benchmark: num_cpus::get() of the host
    derived,    \* benchmark: values returned by opt.concurrency_level() so far
    setLog,     \* benchmark: executor -> values its level setter was called with
    pipe        \* benchmark: blocks in the stages of the command's pipeline

clientVars == <<pc, clientOf, callId, req, reply, errs, slept, wrote, got, ret,
                lock, wire, inbox, liveState, nCalls, nFaults, nLate,
                threads, workload, faultCap>>
benchVars == <<bpc, opt, vmLevel, vmShards, nativeLevel, cmdArgs, cpus, derived,
               setLog, pipe>>
vars == <<pc, clientOf, callId, req, reply, errs, slept, wrote, got, ret,
          lock, wire, inbox, liveState, nCalls, nFaults, nLate,
          threads, workload, faultCap,
          bpc, opt, vmLevel, vmShards, nativeLevel, cmdArgs, cpus, derived,
          setLog, pipe>>

None == "None"

---------------------------------------------------------------------------
(* Bounds of the model *)

\* execute_block calls started in one behaviour
MaxCalls == 2
\* transport faults (write or read failures) the environment injects
MaxFaults == 5
\* timed-out reads whose answer arrives after the timeout
MaxLate == 1
\* transport faults injected when two callers run concurrently
ConcFaults == 2
\* transport faults injected in the runs checked for progress
FairFaults == 1
\* versions the live state view goes through
MaxState == 1

Callers == {"t1", "t2"}
Clients == {"A", "B"}
\* client A is shared by both callers, client B is used by t2 alone
ClientsOf(c) == IF c = "t1" THEN {"A"} ELSE {"A", "B"}

---------------------------------------------------------------------------
(* Retry policy: retry(fixed_retry_strategy(5, 20), ...) *)

\* first argument of fixed_retry_strategy at the call site
RetryArg1 == 5
\* second argument of fixed_retry_strategy at the call site
RetryArg2 == 20

\* the strategy built from the two arguments: R attempts, delay D between them
fixed_retry_strategy(a, b) == [tries |-> a, delay |-> b]

\* mutants of the call site: a smaller attempt count, the arguments swapped
ShortRetryPolicy == fixed_retry_strategy(3, RetryArg2)
SwappedRetryPolicy == fixed_retry_strategy(RetryArg2, RetryArg1)

\* mutant of the call site: an attempt count no call ever reaches
EndlessRetryPolicy == fixed_retry_strategy(1000000, RetryArg2)

RetryPolicy == fixed_retry_strategy(RetryArg1, RetryArg2)

TransportError == "Transport"
CodecError == "Codec"

---------------------------------------------------------------------------
(* Wire codec: frames are sequences of integers *)

\* sub_blocks: one transaction group per shard; a group is modelled by its size
\* Option<T>: None is the empty sequence, Some(x) the one-element sequence
NoneOpt == <<>>
Some(x) == <<x>>

\* arguments execute_block is called with (oversized: the request exceeds the
\* serializer's limits)
SmallBlock == [sub_blocks |-> <<1>>, concurrency_level |-> 4,
               maybe_block_gas_limit |-> NoneOpt, oversized |-> FALSE]
TwoShards  == [sub_blocks |-> <<2, 1>>, concurrency_level |-> 2,
               maybe_block_gas_limit |-> Some(7), oversized |-> FALSE]
HugeBlock  == [sub_blocks |-> <<1>>, concurrency_level |-> 4,
               maybe_block_gas_limit |-> NoneOpt, oversized |-> TRUE]

EncOption(o) == IF o = NoneOpt THEN <<0>> ELSE <<1, o[1]>>

\* bcs::to_bytes(&execution_request): variant tag, then the command's fields in
\* declaration order; fails when the value exceeds the serializer's limits
to_bytes(r) ==
    IF r.oversized
    THEN [ok |-> FALSE, err |-> CodecError, bytes |-> <<>>]
    ELSE [ok |-> TRUE, err |-> None,
          bytes |-> <<0, Len(r.sub_blocks)>> \o r.sub_blocks
                    \o <<r.state_view, r.concurrency_level>>
                    \o EncOption(r.maybe_block_gas_limit)]

\* encoding of RemoteExecutionResult { inner: Ok(outputs) }
EncOk(shape) == <<0, Len(shape)>> \o shape
\* encoding of RemoteExecutionResult { inner: Err(status) }
EncErr(s) == <<1, s>>

\* bcs::from_bytes::<RemoteExecutionResult>(&bytes): rejects an unknown tag,
\* a truncated frame and trailing bytes
from_bytes(b) ==
    IF Len(b) >= 2 /\ b[1] = 0 /\ Len(b) = 2 + b[2]
    THEN [ok |-> TRUE, err |-> None,
          value |-> [inner |-> [ok |-> TRUE, outputs |-> SubSeq(b, 3, Len(b)), status |-> 0]]]
    ELSE IF Len(b) = 2 /\ b[1] = 1
    THEN [ok |-> TRUE, err |-> None,
          value |-> [inner |-> [ok |-> FALSE, outputs |-> <<>>, status |-> b[2]]]]
    ELSE [ok |-> FALSE, err |-> CodecError,
          value |-> [inner |-> [ok |-> FALSE, outputs |-> <<>>, status |-> 0]]]

---------------------------------------------------------------------------
(* Remote worker (environment): the frames it may answer a request with *)

\* Execution is deterministic: the worker answers every frame of one request
\* with the same frame.
Conforming(shape) == EncOk(shape)        \* outputs in the request's shape
ShardMissing(shape) == EncOk(Tail(shape))
Truncated(shape) == <<0, Len(shape) + 1>>

\* the calls of the model: the arguments and the worker's answer to them
Scenarios ==
    { [args |-> SmallBlock, answer |-> Conforming(SmallBlock.sub_blocks)],
      [args |-> TwoShards,  answer |-> Conforming(TwoShards.sub_blocks)],
      [args |-> TwoShards,  answer |-> EncErr(10)],
      [args |-> SmallBlock, answer |-> EncErr(11)],
      [args |-> TwoShards,  answer |-> ShardMissing(TwoShards.sub_blocks)],
      [args |-> SmallBlock, answer |-> Truncated(SmallBlock.sub_blocks)],
      [args |-> HugeBlock,  answer |-> Conforming(HugeBlock.sub_blocks)] }

\* the calls made when two callers run concurrently
ConcScenarios ==
    { [args |-> SmallBlock, answer |-> Conforming(SmallBlock.sub_blocks)],
      [args |-> TwoShards,  answer |-> EncErr(10)],
      [args |-> SmallBlock, answer |-> Truncated(SmallBlock.sub_blocks)] }

\* the calls made in the runs checked for progress
FairScenarios ==
    { [args |-> SmallBlock, answer |-> Conforming(SmallBlock.sub_blocks)],
      [args |-> SmallBlock, answer |-> Truncated(SmallBlock.sub_blocks)] }

---------------------------------------------------------------------------
(* RemoteExecutorClient1 *)

NoReq == [sub_blocks |-> <<>>, state_view |-> 0, concurrency_level |-> 0,
          maybe_block_gas_limit |-> NoneOpt, oversized |-> FALSE]

\* S::as_in_memory_state_view(state_view): the snapshot of the live view
as_in_memory_state_view(live) == live

\* RemoteExecutionRequest::ExecuteBlock(ExecuteBlockCommand { .. })
ExecuteBlockCommand(sb, view, cl, gas, big) ==
    [sub_blocks |-> sb, state_view |-> as_in_memory_state_view(view),
     concurrency_level |-> cl, maybe_block_gas_limit |-> gas, oversized |-> big]

\* mutant: the state view is extracted again for every attempt
FreshSnapshotRequest(c) == [req[c] EXCEPT !.state_view = as_in_memory_state_view(liveState)]

\* execution_request.clone() handed to execute_block_inner on each attempt
AttemptRequest(c) == req[c]

\* retry(): after a failed attempt either sleep and try again or give the
\* error back, which unwrap() turns into a panic
AfterFailure(nErrs) ==
    IF nErrs < RetryPolicy.tries THEN "sleep" ELSE "panicked"

\* mutant: a VM status error inside the result is treated as a failed attempt
IsFailureOrVmError(res) == ~res.ok \/ ~res.value.inner.ok

\* the closure of execute_block_with_retry: retry() sees Err(e) as a failed
\* attempt and Ok(result) as the end of the loop
IsFailure(res) == ~res.ok

\* an attempt of caller c, with the errors es behind it, ended with error e
Fail(c, es, e) ==
    /\ errs' = [errs EXCEPT ![c] = Append(es, e)]
    /\ pc' = [pc EXCEPT ![c] = AfterFailure(Len(es) + 1)]

\* execute_block_inner, first line: bcs::to_bytes(&execution_request)?, after
\* which the attempt waits for the mutex
StartAttempt(c, r, es) ==
    IF ~to_bytes(r).ok
    THEN Fail(c, es, to_bytes(r).err)
    ELSE /\ errs' = [errs EXCEPT ![c] = es]
         /\ pc' = [pc EXCEPT ![c] = "lock"]

\* the frames of a channel without the newest one
DropLast(q) == SubSeq(q, 1, Len(q) - 1)

\* no call has been made on any client
ClientIdle ==
    /\ pc = [c \in Callers |-> "idle"]
    /\ clientOf = [c \in Callers |-> "A"]
    /\ callId = [c \in Callers |-> 0]
    /\ req = [c \in Callers |-> NoReq]
    /\ reply = [c \in Callers |-> <<>>]
    /\ errs = [c \in Callers |-> <<>>]
    /\ slept = [c \in Callers |-> <<>>]
    /\ wrote = [c \in Callers |-> <<>>]
    /\ got = [c \in Callers |-> NoneOpt]
    /\ ret = [c \in Callers |-> NoneOpt]
    /\ lock = [k \in Clients |-> None]
    /\ wire = [k \in Clients |-> <<>>]
    /\ inbox = [k \in Clients |-> <<>>]
    /\ liveState = 0
    /\ nCalls = 0
    /\ nFaults = 0
    /\ nLate = 0

\* the two executors with a process-wide concurrency level
Executors == {"AptosVM", "NativeExecutor"}

\* no setter was called yet
NoSetLog == [e \in Executors |-> <<>>]

\* the pipeline before the command creates it: nothing generated, executed or
\* committed, both queues empty
NoPipe == [generated |-> 0, execQ |-> <<>>, executed |-> <<>>,
           commitQ |-> <<>>, committed |-> <<>>]

\* the benchmark binary is not part of the run
BenchOff ==
    /\ bpc = "off"
    /\ opt = NoneOpt
    /\ vmLevel = NoneOpt
    /\ vmShards = NoneOpt
    /\ nativeLevel = NoneOpt
    /\ cmdArgs = NoneOpt
    /\ cpus = 1
    /\ derived = <<>>
    /\ setLog = NoSetLog
    /\ pipe = NoPipe

\* RemoteExecutorClient1::new for each client; one caller thread, using A
Init ==
    /\ threads = {"t1"}
    /\ workload = Scenarios
    /\ faultCap = MaxFaults
    /\ ClientIdle
    /\ BenchOff

\* execute_block: build the request once from the arguments, then the first
\* attempt of execute_block_with_retry starts
ExecuteBlock(c) ==
    /\ pc[c] = "idle"
    /\ nCalls < MaxCalls
    /\ \E k \in ClientsOf(c), s \in workload :
         /\ clientOf' = [clientOf EXCEPT ![c] = k]
         /\ reply' = [reply EXCEPT ![c] = s.answer]
         /\ LET r == ExecuteBlockCommand(s.args.sub_blocks, liveState,
                                         s.args.concurrency_level,
                                         s.args.maybe_block_gas_limit,
                                         s.args.oversized)
            IN /\ req' = [req EXCEPT ![c] = r]
               /\ StartAttempt(c, r, <<>>)
    /\ nCalls' = nCalls + 1
    /\ callId' = [callId EXCEPT ![c] = nCalls + 1]
    /\ slept' = [slept EXCEPT ![c] = <<>>]
    /\ wrote' = [wrote EXCEPT ![c] = <<>>]
    /\ got' = [got EXCEPT ![c] = NoneOpt]
    /\ ret' = [ret EXCEPT ![c] = NoneOpt]
    /\ UNCHANGED <<lock, wire, inbox, liveState, nFaults, nLate>>
    /\ UNCHANGED <<threads, workload, faultCap>>
    /\ UNCHANGED benchVars

\* mutant: the channel is taken without waiting for the mutex
LockNoWait(c) ==
    /\ pc[c] = "lock"
    /\ lock' = [lock EXCEPT ![clientOf[c]] = c]
    /\ pc' = [pc EXCEPT ![c] = "write"]
    /\ UNCHANGED <<clientOf, callId, req, reply, errs, slept, wrote, got, ret,
                   wire, inbox, liveState, nCalls, nFaults, nLate>>
    /\ UNCHANGED <<threads, workload, faultCap>>
    /\ UNCHANGED benchVars

\* mutant: one mutex for all clients, taken when no channel is in use
LockShared(c) ==
    /\ pc[c] = "lock"
    /\ \A k \in Clients : lock[k] = None
    /\ lock' = [lock EXCEPT ![clientOf[c]] = c]
    /\ pc' = [pc EXCEPT ![c] = "write"]
    /\ UNCHANGED <<clientOf, callId, req, reply, errs, slept, wrote, got, ret,
                   wire, inbox, liveState, nCalls, nFaults, nLate>>
    /\ UNCHANGED <<threads, workload, faultCap>>
    /\ UNCHANGED benchVars

\* execute_block_inner: self.network_client.lock().unwrap()
Lock(c) ==
    /\ pc[c] = "lock"
    /\ lock[clientOf[c]] = None
    /\ lock' = [lock EXCEPT ![clientOf[c]] = c]
    /\ pc' = [pc EXCEPT ![c] = "write"]
    /\ UNCHANGED <<clientOf, callId, req, reply, errs, slept, wrote, got, ret,
                   wire, inbox, liveState, nCalls, nFaults, nLate>>
    /\ UNCHANGED <<threads, workload, faultCap>>
    /\ UNCHANGED benchVars

\* execute_block_inner: network_client.write(&input_message) succeeds
WriteOk(c) ==
    /\ pc[c] = "write"
    /\ wrote' = [wrote EXCEPT ![c] = Append(@, to_bytes(AttemptRequest(c)).bytes)]
    /\ wire' = [wire EXCEPT ![clientOf[c]] =
                  Append(@, [bytes |-> to_bytes(AttemptRequest(c)).bytes,
                             call |-> callId[c], answer |-> reply[c]])]
    /\ pc' = [pc EXCEPT ![c] = "read"]
    /\ UNCHANGED <<clientOf, callId, req, reply, errs, slept, got, ret, lock,
                   inbox, liveState, nCalls, nFaults, nLate>>
    /\ UNCHANGED <<threads, workload, faultCap>>
    /\ UNCHANGED benchVars

\* mutant: the early return on a failed write keeps the mutex locked
WriteFailKeepsLock(c) ==
    /\ pc[c] = "write"
    /\ nFaults < faultCap
    /\ nFaults' = nFaults + 1
    /\ wrote' = [wrote EXCEPT ![c] = Append(@, to_bytes(AttemptRequest(c)).bytes)]
    /\ Fail(c, errs[c], TransportError)
    /\ UNCHANGED <<clientOf, callId, req, reply, slept, got, ret, lock, wire,
                   inbox, liveState, nCalls, nLate>>
    /\ UNCHANGED <<threads, workload, faultCap>>
    /\ UNCHANGED benchVars

\* mutant: the error of a failed write is ignored and the attempt goes on to
\* read
WriteFailThenRead(c) ==
    /\ pc[c] = "write"
    /\ nFaults < faultCap
    /\ nFaults' = nFaults + 1
    /\ wrote' = [wrote EXCEPT ![c] = Append(@, to_bytes(AttemptRequest(c)).bytes)]
    /\ pc' = [pc EXCEPT ![c] = "read"]
    /\ UNCHANGED <<clientOf, callId, req, reply, errs, slept, got, ret, lock,
                   wire, inbox, liveState, nCalls, nLate>>
    /\ UNCHANGED <<threads, workload, faultCap>>
    /\ UNCHANGED benchVars

\* execute_block_inner: network_client.write(&input_message)? fails; the
\* guard is dropped on the early return
WriteFail(c) ==
    /\ pc[c] = "write"
    /\ nFaults < faultCap
    /\ nFaults' = nFaults + 1
    /\ wrote' = [wrote EXCEPT ![c] = Append(@, to_bytes(AttemptRequest(c)).bytes)]
    /\ lock' = [lock EXCEPT ![clientOf[c]] = None]
    /\ Fail(c, errs[c], TransportError)
    /\ UNCHANGED <<clientOf, callId, req, reply, slept, got, ret, wire, inbox,
                   liveState, nCalls, nLate>>
    /\ UNCHANGED <<threads, workload, faultCap>>
    /\ UNCHANGED benchVars

\* execute_block, after retry(..).unwrap(): the value handed to the caller
Inner(result) == result.inner

\* execute_block_inner: network_client.read() yields a frame, then
\* bcs::from_bytes(&bytes)?; the guard is dropped when the function returns
Read(c) ==
    /\ pc[c] = "read"
    /\ inbox[clientOf[c]] # <<>>
    /\ inbox' = [inbox EXCEPT ![clientOf[c]] = Tail(@)]
    /\ lock' = [lock EXCEPT ![clientOf[c]] = None]
    /\ LET res == from_bytes(Head(inbox[clientOf[c]]).bytes) IN
         IF IsFailure(res)
         THEN /\ Fail(c, errs[c], res.err)
              /\ UNCHANGED <<got, ret>>
         ELSE /\ got' = [got EXCEPT ![c] = Some(res.value)]
              /\ ret' = [ret EXCEPT ![c] = Some(Inner(res.value))]
              /\ pc' = [pc EXCEPT ![c] = "done"]
              /\ UNCHANGED errs
    /\ UNCHANGED <<clientOf, callId, req, reply, slept, wrote, wire, liveState,
                   nCalls, nFaults, nLate>>
    /\ UNCHANGED <<threads, workload, faultCap>>
    /\ UNCHANGED benchVars

\* mutant: the early return on a failed read keeps the mutex locked
ReadFailKeepsLock(c) ==
    /\ pc[c] = "read"
    /\ nFaults < faultCap
    /\ nFaults' = nFaults + 1
    /\ IF wire[clientOf[c]] # <<>>
       THEN /\ wire' = [wire EXCEPT ![clientOf[c]] = DropLast(@)]
            /\ UNCHANGED inbox
       ELSE /\ inbox' = [inbox EXCEPT ![clientOf[c]] = DropLast(@)]
            /\ UNCHANGED wire
    /\ Fail(c, errs[c], TransportError)
    /\ UNCHANGED <<clientOf, callId, req, reply, slept, wrote, got, ret, lock,
                   liveState, nCalls, nLate>>
    /\ UNCHANGED <<threads, workload, faultCap>>
    /\ UNCHANGED benchVars

\* execute_block_inner: network_client.read()? fails with an I/O error; the
\* exchange of this attempt is lost with it
ReadFail(c) ==
    /\ pc[c] = "read"
    /\ nFaults < faultCap
    /\ nFaults' = nFaults + 1
    /\ lock' = [lock EXCEPT ![clientOf[c]] = None]
    /\ IF wire[clientOf[c]] # <<>>
       THEN /\ wire' = [wire EXCEPT ![clientOf[c]] = DropLast(@)]
            /\ UNCHANGED inbox
       ELSE /\ inbox' = [inbox EXCEPT ![clientOf[c]] = DropLast(@)]
            /\ UNCHANGED wire
    /\ Fail(c, errs[c], TransportError)
    /\ UNCHANGED <<clientOf, callId, req, reply, slept, wrote, got, ret,
                   liveState, nCalls, nLate>>
    /\ UNCHANGED <<threads, workload, faultCap>>
    /\ UNCHANGED benchVars

\* execute_block_inner: network_client.read()? times out before the worker has
\* answered; the request stays with the worker, which answers it later
ReadTimeout(c) ==
    /\ pc[c] = "read"
    /\ inbox[clientOf[c]] = <<>>
    /\ nFaults < faultCap
    /\ nLate < MaxLate
    /\ nFaults' = nFaults + 1
    /\ nLate' = nLate + 1
    /\ lock' = [lock EXCEPT ![clientOf[c]] = None]
    /\ Fail(c, errs[c], TransportError)
    /\ UNCHANGED <<clientOf, callId, req, reply, slept, wrote, got, ret, wire,
                   inbox, liveState, nCalls>>
    /\ UNCHANGED <<threads, workload, faultCap>>
    /\ UNCHANGED benchVars

\* retry(): thread::sleep(delay), then the closure runs again with a clone of
\* the request
Sleep(c) ==
    /\ pc[c] = "sleep"
    /\ slept' = [slept EXCEPT ![c] = Append(@, RetryPolicy.delay)]
    /\ StartAttempt(c, AttemptRequest(c), errs[c])
    /\ UNCHANGED <<clientOf, callId, req, reply, wrote, got, ret, lock, wire,
                   inbox, liveState, nCalls, nFaults, nLate>>
    /\ UNCHANGED <<threads, workload, faultCap>>
    /\ UNCHANGED benchVars

\* the caller takes the returned value and may call again
Return(c) ==
    /\ pc[c] = "done"
    /\ pc' = [pc EXCEPT ![c] = "idle"]
    /\ UNCHANGED <<clientOf, callId, req, reply, errs, slept, wrote, got, ret,
                   lock, wire, inbox, liveState, nCalls, nFaults, nLate>>
    /\ UNCHANGED <<threads, workload, faultCap>>
    /\ UNCHANGED benchVars

\* the worker behind client k answers the oldest request frame
WorkerRespond(k) ==
    /\ wire[k] # <<>>
    /\ inbox' = [inbox EXCEPT ![k] =
                   Append(@, [bytes |-> Head(wire[k]).answer, call |-> Head(wire[k]).call])]
    /\ wire' = [wire EXCEPT ![k] = Tail(@)]
    /\ UNCHANGED <<pc, clientOf, callId, req, reply, errs, slept, wrote, got,
                   ret, lock, liveState, nCalls, nFaults, nLate>>
    /\ UNCHANGED <<threads, workload, faultCap>>
    /\ UNCHANGED benchVars

\* the commit stage advances the live state the callers' views borrow
AdvanceState ==
    /\ liveState < MaxState
    /\ liveState' = liveState + 1
    /\ UNCHANGED <<pc, clientOf, callId, req, reply, errs, slept, wrote, got,
                   ret, lock, wire, inbox, nCalls, nFaults, nLate>>
    /\ UNCHANGED <<threads, workload, faultCap>>
    /\ UNCHANGED benchVars

Next ==
    \/ \E c \in threads : ExecuteBlock(c)
    \/ \E c \in threads : Lock(c)
    \/ \E c \in threads : WriteOk(c)
    \/ \E c \in threads : WriteFail(c)
    \/ \E c \in threads : Read(c)
    \/ \E c \in threads : ReadFail(c)
    \/ \E c \in threads : ReadTimeout(c)
    \/ \E c \in threads : Sleep(c)
    \/ \E c \in threads : Return(c)
    \/ \E k \in Clients : WorkerRespond(k)
    \/ AdvanceState

\* one caller thread using client A
Spec == Init /\ [][Next]_vars

\* two caller threads: both share client A, t2 also has a client B of its own
ConcInit ==
    /\ threads = Callers
    /\ workload = ConcScenarios
    /\ faultCap = ConcFaults
    /\ ClientIdle
    /\ BenchOff

\* the steps of the callers and of the workers on a connection that answers
\* in time or fails
ConcNext ==
    \/ \E c \in threads : ExecuteBlock(c)
    \/ \E c \in threads : Lock(c)
    \/ \E c \in threads : WriteOk(c)
    \/ \E c \in threads : WriteFail(c)
    \/ \E c \in threads : Read(c)
    \/ \E c \in threads : ReadFail(c)
    \/ \E c \in threads : Sleep(c)
    \/ \E c \in threads : Return(c)
    \/ \E k \in Clients : WorkerRespond(k)

ConcSpec == ConcInit /\ [][ConcNext]_vars

\* two caller threads with one injected fault, for the progress properties
FairInit ==
    /\ threads = Callers
    /\ workload = FairScenarios
    /\ faultCap = FairFaults
    /\ ClientIdle
    /\ BenchOff

\* the scheduling of the threads: a thread that can take its next step takes
\* it, and the worker answers the frames it received
FairConcSpec ==
    /\ FairInit /\ [][ConcNext]_vars
    /\ \A c \in Callers :
         /\ WF_vars(Lock(c))
         /\ WF_vars(WriteOk(c))
         /\ WF_vars(Read(c))
         /\ WF_vars(Sleep(c))
    /\ \A k \in Clients : WF_vars(WorkerRespond(k))

---------------------------------------------------------------------------
(* Properties of the retry loop *)

AllTransport(es) == \A i \in DOMAIN es : es[i] = TransportError

\* C1 - Retry exhaustion: a call panics only after exactly 5 failed attempts
\* with 4 sleeps between them; when all of them failed with a transport error
\* the channel was used for exactly 5 write/read attempts; and after the panic
\* the caller makes no further attempt.
RetryExhaustion ==
    /\ [](\A c \in Callers :
            pc[c] = "panicked" =>
              /\ Len(errs[c]) = 5
              /\ Len(slept[c]) = 4
              /\ AllTransport(errs[c]) => Len(wrote[c]) = 5)
    /\ [][\A c \in Callers :
            pc[c] = "panicked" =>
              /\ pc'[c] = "panicked"
              /\ wrote'[c] = wrote[c]
              /\ errs'[c] = errs[c]
              /\ slept'[c] = slept[c]]_vars

\* C1 witness: a call whose five attempts all failed on the channel panicked
RetryExhaustionWitness ==
    \E c \in Callers :
        /\ pc[c] = "panicked"
        /\ AllTransport(errs[c])
        /\ Len(wrote[c]) = 5

\* C2 - Retry success path: when a call returns after k-1 transport failures,
\* the channel was used for exactly k attempts, exactly k-1 sleeps of 20 ms
\* were made (one between consecutive attempts), and the value returned is the
\* inner value of the result decoded in attempt k.
RetrySuccessPath ==
    \A c \in Callers :
        (pc[c] = "done" /\ AllTransport(errs[c])) =>
          /\ Len(errs[c]) < 5
          /\ Len(wrote[c]) = Len(errs[c]) + 1
          /\ Len(slept[c]) = Len(errs[c])
          /\ \A i \in DOMAIN slept[c] : slept[c][i] = 20
          /\ got[c] # NoneOpt
          /\ ret[c] = Some(got[c][1].inner)

\* C2 witness: attempts 1 and 2 failed, attempt 3 succeeded with outputs
RetrySuccessWitness ==
    \E c \in Callers :
        /\ pc[c] = "done"
        /\ errs[c] = <<TransportError, TransportError>>
        /\ Len(wrote[c]) = 3
        /\ ret[c] # NoneOpt
        /\ ret[c][1].ok

\* C3 - Codec errors are not retried: once an attempt failed with a codec
\* error it is the last attempt of the call and the call is fatal.
CodecErrorsNotRetried ==
    \A c \in Callers :
        \A i \in DOMAIN errs[c] :
            errs[c][i] = CodecError => (i = Len(errs[c]) /\ pc[c] = "panicked")

VMStatuses == {10, 11}

\* C4 - Business errors are returned, not retried: the read that yields a
\* frame decoding to Err(status) ends the call at once, with that status as
\* the returned Err, no failure recorded and no panic.
BusinessErrorsReturned ==
    [][\A c \in Callers : \A s \in VMStatuses :
          ( /\ pc[c] = "read"
            /\ pc'[c] # "read"
            /\ nFaults' = nFaults
            /\ inbox[clientOf[c]] # <<>>
            /\ Head(inbox[clientOf[c]]).bytes = EncErr(s) )
          => /\ pc'[c] = "done"
             /\ ret'[c] = Some([ok |-> FALSE, outputs |-> <<>>, status |-> s])
             /\ errs'[c] = errs[c]
             /\ wrote'[c] = wrote[c]]_vars

\* C4 witness: a call returned Err(10) after one round trip
BusinessErrorWitness ==
    \E c \in Callers :
        /\ pc[c] = "done"
        /\ ret[c] = Some([ok |-> FALSE, outputs |-> <<>>, status |-> 10])
        /\ Len(wrote[c]) = 1
        /\ errs[c] = <<>>

\* C5 - Shape preservation: outputs returned as Ok have one entry per shard of
\* the request and, per shard, as many outputs as transactions sent.
ShapePreserved ==
    \A c \in Callers :
        (pc[c] = "done" /\ ret[c] # NoneOpt /\ ret[c][1].ok) =>
          ret[c][1].outputs = req[c].sub_blocks

\* the callers inside the write/read pair of an attempt on client k
InChannel(k) == {c \in Callers : clientOf[c] = k /\ pc[c] \in {"write", "read"}}

\* C6 - Channel mutual exclusion: at most one caller is inside the write/read
\* pair of a client, it is the holder of the client's mutex, and while a
\* caller holds the channel no other caller of that client writes a frame or
\* takes a result from it.
ChannelMutualExclusion ==
    /\ [](\A k \in Clients :
            /\ Cardinality(InChannel(k)) <= 1
            /\ \A c \in InChannel(k) : lock[k] = c)
    /\ [][\A k \in Clients : \A d \in Callers :
            (lock[k] # None /\ lock[k] # d /\ clientOf[d] = k /\ clientOf'[d] = k) =>
              /\ Len(wrote'[d]) <= Len(wrote[d])
              /\ got'[d] \in {got[d], NoneOpt}]_vars

\* C6 witness: one caller is between write and read on client A while the
\* other caller waits for the same channel
MutualExclusionWitness ==
    \E c, d \in Callers :
        /\ c # d
        /\ clientOf[c] = "A" /\ clientOf[d] = "A"
        /\ pc[c] = "read"
        /\ pc[d] = "lock"

\* C7 - Lock release on every exit path: the mutex of a client is held only
\* by a caller inside the write/read pair of an attempt on that client, a held
\* mutex is eventually free again, and a caller waiting for the channel
\* eventually gets it.
LockReleased ==
    /\ [](\A k \in Clients :
            lock[k] # None => (clientOf[lock[k]] = k /\ pc[lock[k]] \in {"write", "read"}))
    /\ \A k \in Clients : (lock[k] # None) ~> (lock[k] = None)
    /\ \A c \in Callers : (pc[c] = "lock") ~> (pc[c] = "write")

\* C7 witness: a caller whose attempt failed on the channel sleeps while the
\* other caller of the same client holds the channel
LockReleasedWitness ==
    \E c, d \in Callers :
        /\ c # d
        /\ clientOf[c] = "A" /\ clientOf[d] = "A"
        /\ pc[c] = "sleep"
        /\ errs[c] # <<>>
        /\ errs[c][Len(errs[c])] = TransportError
        /\ lock["A"] = d

\* C8 - Request immutability across retries: all frames written in one call
\* are the encoding of the request built when the call started, and the
\* request does not change while the call lasts.
RequestImmutable ==
    /\ [](\A c \in Callers : \A i \in DOMAIN wrote[c] :
            /\ wrote[c][i] = wrote[c][1]
            /\ wrote[c][i] = to_bytes(req[c]).bytes)
    /\ [][\A c \in Callers : callId'[c] = callId[c] => req'[c] = req[c]]_vars

\* C8 witness: a second attempt was written after the live state had moved
\* on from the snapshot of the call
RequestImmutableWitness ==
    \E c \in Callers :
        /\ Len(wrote[c]) >= 2
        /\ req[c].state_view # liveState

---------------------------------------------------------------------------
(* executor-benchmark: main.rs *)

\* largest number of executor shards and of CPUs of the runs
MaxShards == 3
MaxCpus == 4
\* calls of one executor's level setter in a run, the one of main included
MaxSets == 2
\* blocks a command drives through its pipeline, and capacity of a stage queue
MaxBlocks == 3
QueueCap == 1

\* stands for usize::MAX, the value `f64::INFINITY as usize` saturates to
UsizeMax == 2147483647

Commands == {"CreateDb", "RunExecutor", "AddAccounts"}

\* PrunerOpt as parsed by clap (defaults 100000 and 500)
PrunerOpts ==
    [enable_state_pruner : BOOLEAN,
     enable_epoch_snapshot_pruner : BOOLEAN,
     enable_ledger_pruner : BOOLEAN,
     state_prune_window : {0, 100000},
     epoch_snapshot_prune_window : {0, 100001},
     ledger_prune_window : {0, 100002},
     ledger_pruning_batch_size : {0, 502},
     state_pruning_batch_size : {0, 500},
     epoch_snapshot_pruning_batch_size : {0, 501}]

DefaultPrunerOpt ==
    [enable_state_pruner |-> FALSE,
     enable_epoch_snapshot_pruner |-> FALSE,
     enable_ledger_pruner |-> FALSE,
     state_prune_window |-> 100000,
     epoch_snapshot_prune_window |-> 100001,
     ledger_prune_window |-> 100002,
     ledger_pruning_batch_size |-> 502,
     state_pruning_batch_size |-> 500,
     epoch_snapshot_pruning_batch_size |-> 501]

\* PipelineOpt as parsed by clap
PipelineOpts ==
    [generate_then_execute : BOOLEAN, split_stages : BOOLEAN,
     skip_commit : BOOLEAN, allow_discards : BOOLEAN, allow_aborts : BOOLEAN]

DefaultPipelineOpt ==
    [generate_then_execute |-> FALSE, split_stages |-> FALSE,
     skip_commit |-> FALSE, allow_discards |-> FALSE, allow_aborts |-> FALSE]

\* Opt as parsed by clap
MkOpt(level, shards, pruner, pipeline, cmd, native) ==
    [concurrency_level |-> level, num_executor_shards |-> shards,
     pruner_opt |-> pruner, pipeline_opt |-> pipeline, cmd |-> cmd,
     use_native_executor |-> native]

\* the command lines of the runs: the pruner options, the pipeline flags and the
\* concurrency options are each varied over all their values
Opts ==
    {MkOpt(NoneOpt, 1, p, DefaultPipelineOpt, cmd, FALSE) :
        p \in PrunerOpts, cmd \in Commands}
    \cup {MkOpt(NoneOpt, 1, DefaultPrunerOpt, f, cmd, FALSE) :
        f \in PipelineOpts, cmd \in Commands}
    \cup {MkOpt(l, n, DefaultPrunerOpt, DefaultPipelineOpt, "RunExecutor", e) :
        l \in {NoneOpt, Some(1), Some(3)}, n \in 0..MaxShards, e \in BOOLEAN}

\* PrunerOpt::pruner_config
pruner_config(o) ==
    [state_merkle_pruner_config |->
        [enable |-> o.enable_state_pruner,
         prune_window |-> o.state_prune_window,
         batch_size |-> o.state_pruning_batch_size],
     epoch_snapshot_pruner_config |->
        [enable |-> o.enable_epoch_snapshot_pruner,
         prune_window |-> o.epoch_snapshot_prune_window,
         batch_size |-> o.epoch_snapshot_pruning_batch_size],
     ledger_pruner_config |->
        [enable |-> o.enable_ledger_pruner,
         prune_window |-> o.ledger_prune_window,
         batch_size |-> o.ledger_pruning_batch_size,
         user_pruning_window_offset |-> 0]]

\* mutant: allow_aborts follows the allow_discards flag
PipelineConfigAbortsAsDiscards(o) ==
    [delay_execution_start |-> o.generate_then_execute,
     split_stages |-> o.split_stages,
     skip_commit |-> o.skip_commit,
     allow_discards |-> o.allow_discards,
     allow_aborts |-> o.allow_discards]

\* mutant: the skip_commit flag is dropped
PipelineConfigCommitAlways(o) ==
    [delay_execution_start |-> o.generate_then_execute,
     split_stages |-> o.split_stages,
     skip_commit |-> FALSE,
     allow_discards |-> o.allow_discards,
     allow_aborts |-> o.allow_aborts]

\* PipelineOpt::pipeline_config
pipeline_config(o) ==
    [delay_execution_start |-> o.generate_then_execute,
     split_stages |-> o.split_stages,
     skip_commit |-> o.skip_commit,
     allow_discards |-> o.allow_discards,
     allow_aborts |-> o.allow_aborts]

\* mutant: integer division in place of the rounded-up quotient
FloorQuotient(p, n) == IF n = 0 THEN UsizeMax ELSE p \div n

\* (p as f64 / n as f64).ceil() as usize: the quotient rounded up; p / 0.0 is
\* +infinity, which the cast saturates
CeilQuotient(p, n) ==
    IF n = 0 THEN UsizeMax
    ELSE IF p % n = 0 THEN p \div n ELSE (p \div n) + 1

\* Opt::concurrency_level
concurrency_level(o, p) ==
    IF o.concurrency_level = NoneOpt
    THEN CeilQuotient(p, o.num_executor_shards)
    ELSE o.concurrency_level[1]

\* set_concurrency_level_once / set_num_shards_once: the first value stays
set_once(cell, v) == IF cell = NoneOpt THEN Some(v) ELSE cell

\* the values a late setter call passes
LateLevels == {1, 2}

\* Opt::parse(): the command line and the host
BenchInit ==
    /\ threads = {}
    /\ workload = {}
    /\ faultCap = 0
    /\ ClientIdle
    /\ bpc = "parsed"
    /\ opt \in Opts
    /\ cpus \in 1..MaxCpus
    /\ vmLevel = NoneOpt
    /\ vmShards = NoneOpt
    /\ nativeLevel = NoneOpt
    /\ cmdArgs = NoneOpt
    /\ derived = <<>>
    /\ setLog = NoSetLog
    /\ pipe = NoPipe

\* mutant: main goes on without calling the AptosVM level setter
SetVmLevelSkipped ==
    /\ bpc = "parsed"
    /\ bpc' = "vm_level_set"
    /\ UNCHANGED <<opt, cpus, vmLevel, vmShards, nativeLevel, cmdArgs, derived,
                   setLog, pipe>>
    /\ UNCHANGED clientVars

\* main: AptosVM::set_concurrency_level_once(opt.concurrency_level())
SetVmLevel ==
    /\ bpc = "parsed"
    /\ derived' = Append(derived, concurrency_level(opt, cpus))
    /\ vmLevel' = set_once(vmLevel, concurrency_level(opt, cpus))
    /\ setLog' = [setLog EXCEPT !["AptosVM"] =
                      Append(@, concurrency_level(opt, cpus))]
    /\ bpc' = "vm_level_set"
    /\ UNCHANGED <<opt, cpus, vmShards, nativeLevel, cmdArgs, pipe>>
    /\ UNCHANGED clientVars

\* main: AptosVM::set_num_shards_once(opt.num_executor_shards)
SetNumShards ==
    /\ bpc = "vm_level_set"
    /\ vmShards' = set_once(vmShards, opt.num_executor_shards)
    /\ bpc' = "shards_set"
    /\ UNCHANGED <<opt, cpus, vmLevel, nativeLevel, cmdArgs, derived, setLog,
                   pipe>>
    /\ UNCHANGED clientVars

\* main: NativeExecutor::set_concurrency_level_once(opt.concurrency_level())
SetNativeLevel ==
    /\ bpc = "shards_set"
    /\ derived' = Append(derived, concurrency_level(opt, cpus))
    /\ nativeLevel' = set_once(nativeLevel, concurrency_level(opt, cpus))
    /\ setLog' = [setLog EXCEPT !["NativeExecutor"] =
                      Append(@, concurrency_level(opt, cpus))]
    /\ bpc' = "native_level_set"
    /\ UNCHANGED <<opt, cpus, vmLevel, vmShards, cmdArgs, pipe>>
    /\ UNCHANGED clientVars

\* main: run::<NativeExecutor>(opt) or run::<AptosVM>(opt); run() starts the
\* command with the pruner and pipeline configuration built from the options
Run ==
    /\ bpc = "native_level_set"
    /\ cmdArgs' = Some([cmd |-> opt.cmd,
                        executor |-> IF opt.use_native_executor
                                     THEN "NativeExecutor" ELSE "AptosVM",
                        pruner_config |-> pruner_config(opt.pruner_opt),
                        pipeline_config |-> pipeline_config(opt.pipeline_opt)])
    /\ bpc' = "command"
    /\ UNCHANGED <<opt, cpus, vmLevel, vmShards, nativeLevel, derived, setLog,
                   pipe>>
    /\ UNCHANGED clientVars

\* a component of the running command calls the level setter of executor e
\* again, with value v
LateSetLevel(e, v) ==
    /\ bpc = "command"
    /\ Len(setLog[e]) < MaxSets
    /\ setLog' = [setLog EXCEPT ![e] = Append(@, v)]
    /\ IF e = "AptosVM"
       THEN vmLevel' = set_once(vmLevel, v) /\ UNCHANGED nativeLevel
       ELSE nativeLevel' = set_once(nativeLevel, v) /\ UNCHANGED vmLevel
    /\ UNCHANGED <<bpc, opt, cpus, vmShards, cmdArgs, derived, pipe>>
    /\ UNCHANGED clientVars

BenchNext ==
    \/ SetVmLevel
    \/ SetNumShards
    \/ SetNativeLevel
    \/ Run
    \/ \E e \in Executors, v \in LateLevels : LateSetLevel(e, v)

BenchSpec == BenchInit /\ [][BenchNext]_vars

---------------------------------------------------------------------------
(* The pipeline of the started command: generate -> execute -> commit *)

\* the PipelineConfig run() handed to the command
Config == cmdArgs[1].pipeline_config

\* generation stage: block number pipe.generated is produced and handed to the
\* execution stage. Split stages: blocks while the queue is full. Sequential:
\* the previous block is through before the next starts. Delayed start: all
\* blocks are buffered.
Generate ==
    /\ bpc = "command"
    /\ pipe.generated < MaxBlocks
    /\ IF Config.delay_execution_start THEN TRUE
       ELSE IF Config.split_stages THEN Len(pipe.execQ) < QueueCap
       ELSE pipe.execQ = <<>> /\ pipe.commitQ = <<>>
    /\ pipe' = [pipe EXCEPT !.generated = @ + 1,
                            !.execQ = Append(@, pipe.generated)]
    /\ UNCHANGED <<bpc, opt, cpus, vmLevel, vmShards, nativeLevel, cmdArgs,
                   derived, setLog>>
    /\ UNCHANGED clientVars

\* execution stage: takes the oldest generated block, executes it and hands it
\* to the commit stage, unless commit is skipped
Execute ==
    /\ bpc = "command"
    /\ pipe.execQ # <<>>
    /\ Config.delay_execution_start => pipe.generated = MaxBlocks
    /\ IF Config.skip_commit THEN TRUE
       ELSE IF Config.split_stages THEN Len(pipe.commitQ) < QueueCap
       ELSE pipe.commitQ = <<>>
    /\ pipe' = [pipe EXCEPT !.execQ = Tail(@),
                            !.executed = Append(@, Head(pipe.execQ)),
                            !.commitQ = IF Config.skip_commit THEN @
                                        ELSE Append(@, Head(pipe.execQ))]
    /\ UNCHANGED <<bpc, opt, cpus, vmLevel, vmShards, nativeLevel, cmdArgs,
                   derived, setLog>>
    /\ UNCHANGED clientVars

\* commit stage: takes the oldest executed block and commits it
Commit ==
    /\ bpc = "command"
    /\ ~Config.skip_commit
    /\ pipe.commitQ # <<>>
    /\ pipe' = [pipe EXCEPT !.commitQ = Tail(@),
                            !.committed = Append(@, Head(pipe.commitQ))]
    /\ UNCHANGED <<bpc, opt, cpus, vmLevel, vmShards, nativeLevel, cmdArgs,
                   derived, setLog>>
    /\ UNCHANGED clientVars

\* runs that vary the pipeline flags and the command only, on a one-CPU host
PipeInit ==
    /\ BenchInit
    /\ opt \in {MkOpt(NoneOpt, 1, DefaultPrunerOpt, f, cmd, FALSE) :
                    f \in PipelineOpts, cmd \in Commands}
    /\ cpus = 1

PipeNext ==
    \/ SetVmLevel
    \/ SetNumShards
    \/ SetNativeLevel
    \/ Run
    \/ Generate
    \/ Execute
    \/ Commit

PipeSpec == PipeInit /\ [][PipeNext]_vars

---------------------------------------------------------------------------
(* Properties of the benchmark configuration *)

\* the least k with k * n >= p, i.e. ceil(p / n)
Ceil(p, n) == CHOOSE k \in 0..p : k * n >= p /\ \A j \in 0..p : j * n >= p => k <= j

\* C9 - Concurrency-level derivation: with at least one shard, every call of
\* Opt::concurrency_level returns ceil(P / S) when no level was given on the
\* command line, and the given level otherwise.
ConcurrencyLevelDerivation ==
    \A i \in DOMAIN derived :
        /\ opt.concurrency_level # NoneOpt => derived[i] = opt.concurrency_level[1]
        /\ (opt.concurrency_level = NoneOpt /\ opt.num_executor_shards >= 1) =>
               derived[i] = Ceil(cpus, opt.num_executor_shards)

\* C9 witness: 4 CPUs over 3 shards gave level 2, computed at both call sites
ConcurrencyLevelWitness ==
    /\ bpc = "command"
    /\ cpus = 4
    /\ opt.num_executor_shards = 3
    /\ opt.concurrency_level = NoneOpt
    /\ derived = <<2, 2>>

PrunerKinds == {"state_merkle_pruner_config", "epoch_snapshot_pruner_config",
                "ledger_pruner_config"}

\* C10 - Pruner configuration validation: no command is started with a pruner
\* enabled whose prune_window or batch_size is 0.
PrunerConfigValidated ==
    cmdArgs # NoneOpt =>
        \A kind \in PrunerKinds :
            cmdArgs[1].pruner_config[kind].enable =>
                /\ cmdArgs[1].pruner_config[kind].prune_window > 0
                /\ cmdArgs[1].pruner_config[kind].batch_size > 0

\* C11 - Zero shards is a configuration error: with num_executor_shards = 0
\* no concurrency level is derived or set, no shard count is set and no
\* command is started.
ZeroShardsRejected ==
    opt.num_executor_shards = 0 =>
        /\ derived = <<>>
        /\ vmLevel = NoneOpt
        /\ vmShards = NoneOpt
        /\ nativeLevel = NoneOpt
        /\ cmdArgs = NoneOpt

\* the level in effect for executor e
EffectiveLevel(e) == IF e = "AptosVM" THEN vmLevel ELSE nativeLevel

\* C12 - Set-once concurrency level: when the command runs, the level of each
\* executor has been set; the level in effect is the value of the first call
\* of its setter, whatever later calls pass; and no step changes a level that
\* is set.
SetOnceLevel ==
    /\ [](\A e \in Executors :
            /\ bpc = "command" => EffectiveLevel(e) # NoneOpt
            /\ EffectiveLevel(e) =
                   IF setLog[e] = <<>> THEN NoneOpt ELSE Some(setLog[e][1]))
    /\ [][/\ vmLevel # NoneOpt => vmLevel' = vmLevel
          /\ nativeLevel # NoneOpt => nativeLevel' = nativeLevel]_vars

\* C12 witness: during the command the AptosVM setter was called a second time
\* with a value other than the first, and the first is in effect
SetOnceWitness ==
    /\ bpc = "command"
    /\ Len(setLog["AptosVM"]) = 2
    /\ setLog["AptosVM"][2] # setLog["AptosVM"][1]
    /\ vmLevel = Some(setLog["AptosVM"][1])

\* C19 - Default pipeline tolerance: the PipelineConfig a command is started
\* with has each field true exactly when its own flag was given
\* (generate_then_execute for delay_execution_start), and all five fields false
\* when no pipeline flag was given.
PipelineConfigDefaults ==
    cmdArgs # NoneOpt =>
        LET cfg == cmdArgs[1].pipeline_config
            flags == opt.pipeline_opt
        IN  /\ cfg.delay_execution_start = flags.generate_then_execute
            /\ cfg.split_stages = flags.split_stages
            /\ cfg.skip_commit = flags.skip_commit
            /\ cfg.allow_discards = flags.allow_discards
            /\ cfg.allow_aborts = flags.allow_aborts
            /\ flags = DefaultPipelineOpt =>
                   cfg = [delay_execution_start |-> FALSE,
                          split_stages |-> FALSE,
                          skip_commit |-> FALSE,
                          allow_discards |-> FALSE,
                          allow_aborts |-> FALSE]

\* C19 witness: a command started without any pipeline flag, with commit
\* enabled and discards and aborts fatal
PipelineConfigDefaultsWitness ==
    /\ cmdArgs # NoneOpt
    /\ opt.pipeline_opt = DefaultPipelineOpt
    /\ ~cmdArgs[1].pipeline_config.split_stages
    /\ ~cmdArgs[1].pipeline_config.skip_commit
    /\ ~cmdArgs[1].pipeline_config.allow_discards
    /\ ~cmdArgs[1].pipeline_config.allow_aborts
    /\ ~cmdArgs[1].pipeline_config.delay_execution_start

---------------------------------------------------------------------------
(* Further properties of RemoteExecutorClient1 *)

\* one caller thread making every kind of call, with one injected fault
FairCallInit ==
    /\ threads = {"t1"}
    /\ workload = Scenarios
    /\ faultCap = FairFaults
    /\ ClientIdle
    /\ BenchOff

\* one caller under fair scheduling: each step of an attempt that can be taken
\* is taken, and the worker answers the frames it received; reads may time out
FairCallSpec ==
    /\ FairCallInit /\ [][Next]_vars
    /\ WF_vars(Lock("t1"))
    /\ WF_vars(WriteOk("t1"))
    /\ WF_vars(Read("t1"))
    /\ WF_vars(Sleep("t1"))
    /\ \A k \in Clients : WF_vars(WorkerRespond(k))

\* caller c is inside a call of execute_block
InCall(c) == pc[c] \in {"lock", "write", "read", "sleep"}

\* C14 - Call termination: a call of execute_block makes at most RetryArg1
\* attempts; where it has ended it either returned a value, Ok(outputs) or
\* Err(VM status), or it panicked after RetryArg1 failed attempts without
\* returning; and under fair scheduling every call that is under way ends in
\* one of these ways.
CallTermination ==
    /\ [](\A c \in Callers :
            /\ Len(errs[c]) <= RetryArg1
            /\ pc[c] = "done" => (ret[c] # NoneOpt /\ Len(errs[c]) < RetryArg1)
            /\ pc[c] = "panicked" => (ret[c] = NoneOpt /\ Len(errs[c]) = RetryArg1)
            /\ InCall(c) => ret[c] = NoneOpt)
    /\ \A c \in Callers : InCall(c) ~> (pc[c] \in {"done", "panicked"})

\* C14 witness: the first call of a caller has returned and its second call
\* has panicked with the retry budget used up
CallTerminationWitness ==
    \E c \in Callers :
        /\ callId[c] = 2
        /\ pc[c] = "panicked"
        /\ Len(errs[c]) = RetryArg1
        /\ Len(slept[c]) = RetryArg1 - 1

\* the attempt of caller c has ended in failure in this step
AttemptFailed(c) == pc'[c] \in {"sleep", "panicked"} /\ pc[c] # pc'[c]

\* C15 - Attempt step order: a caller reads only after the write of the same
\* attempt, and that write hands over the full request; a failed write ends
\* the attempt without a read and adds exactly one failed attempt; a failed
\* read adds exactly one failed attempt; after the delay the next attempt
\* starts again before the write, so that every attempt that reached the
\* channel has written the request once.
AttemptStepOrder ==
    /\ [](\A c \in Callers :
            /\ pc[c] = "read" => Len(wrote[c]) = Len(errs[c]) + 1
            /\ pc[c] \in {"lock", "write"} => Len(wrote[c]) = Len(errs[c]))
    /\ [][\A c \in Callers :
            /\ (pc'[c] = "read" /\ pc[c] # "read") =>
                   /\ pc[c] = "write"
                   /\ wrote'[c] = Append(wrote[c], to_bytes(req[c]).bytes)
            /\ (pc[c] = "write" /\ nFaults' # nFaults) =>
                   /\ AttemptFailed(c)
                   /\ Len(errs'[c]) = Len(errs[c]) + 1
                   /\ inbox' = inbox /\ got' = got
            /\ (pc[c] = "read" /\ AttemptFailed(c)) =>
                   Len(errs'[c]) = Len(errs[c]) + 1
            /\ (pc[c] = "sleep" /\ pc'[c] # "sleep" /\ ~req[c].oversized) =>
                   pc'[c] = "lock"
            /\ (pc[c] = "lock" /\ pc'[c] # "lock") => pc'[c] = "write"]_vars

\* C15 witness: two attempts of a call failed on the channel, and the third
\* has written the request again and is reading
AttemptStepOrderWitness ==
    \E c \in Callers :
        /\ pc[c] = "read"
        /\ errs[c] = <<TransportError, TransportError>>
        /\ Len(slept[c]) = 2
        /\ Len(wrote[c]) = 3
        /\ wrote[c][3] = to_bytes(req[c]).bytes

\* C16 - Retry isolation between clients: whatever the callers of client A
\* do (hold its channel, sleep between attempts), a caller inside a call on
\* client B can take its next step: the mutex of B is free for it, its write
\* can go out, the answer to its request is there or on its way, and its
\* retry delay ends.
RetryIsolation ==
    \A d \in Callers :
        (InCall(d) /\ clientOf[d] = "B") =>
            /\ pc[d] = "lock" => ENABLED Lock(d)
            /\ pc[d] = "write" => ENABLED WriteOk(d)
            /\ pc[d] = "read" => (ENABLED Read(d) \/ ENABLED WorkerRespond("B"))
            /\ pc[d] = "sleep" => ENABLED Sleep(d)

\* C16 witness: the caller of A holds A's channel in a retry of its call, and
\* the other caller started a call on B after that call began, got through
\* lock and write on B and has its answer to read
RetryIsolationWitness ==
    \E c, d \in Callers :
        /\ clientOf[c] = "A" /\ lock["A"] = c
        /\ errs[c] # <<>>
        /\ clientOf[d] = "B"
        /\ callId[d] > callId[c]
        /\ lock["B"] = d
        /\ pc[d] = "read"
        /\ inbox["B"] # <<>>

\* C17 - Response-to-request correspondence: the frame a call decodes into
\* the result it returns is the worker's answer to a request of that same
\* call.
ResponseMatchesRequest ==
    [][\A c \in Callers :
          (pc[c] = "read" /\ pc'[c] = "done") =>
              Head(inbox[clientOf[c]]).call = callId[c]]_vars

\* C18 - The channel lock is not held across the retry delay: a caller that
\* sleeps between two attempts, or waits for the mutex, holds no mutex, so a
\* second caller waiting for the same client can take the channel during the
\* delay; a caller gives the mutex up only where its attempt ends, so each
\* attempt keeps the channel from its write to the end of its read.
NoLockAcrossDelay ==
    /\ [](\A c \in Callers :
            /\ pc[c] \in {"sleep", "lock"} => \A k \in Clients : lock[k] # c
            /\ \A d \in Callers \ {c} :
                   (pc[c] = "sleep" /\ pc[d] = "lock" /\ clientOf[d] = clientOf[c])
                       => ENABLED Lock(d))
    /\ [][\A c \in Callers : \A k \in Clients :
            /\ (lock[k] = c /\ lock'[k] # c) =>
                   (lock'[k] = None /\ pc'[c] \in {"sleep", "panicked", "done"})
            /\ (lock[k] # c /\ lock'[k] = c) =>
                   (pc[c] = "lock" /\ pc'[c] = "write")]_vars

\* C18 witness: between two attempts of a caller whose attempt failed on the
\* channel, the other caller of the same client has taken the channel, written
\* its request and has the answer to read
NoLockAcrossDelayWitness ==
    \E c, d \in Callers :
        /\ c # d
        /\ clientOf[c] = "A" /\ clientOf[d] = "A"
        /\ pc[c] = "sleep"
        /\ errs[c] = <<TransportError>>
        /\ wrote[c] # <<>>
        /\ lock["A"] = d
        /\ pc[d] = "read"
        /\ inbox["A"] # <<>>
        /\ Head(inbox["A"]).call = callId[d]

=============================================================================
